---------------------------- MODULE Spec2Model ----------------------------
(***************************************************************************)
(* A model of the SEO audit engine of src/audit.py (class SEOAudit).       *)
(*                                                                         *)
(* Strings are TLA+ strings, handled character by character with Len,      *)
(* SubSeq and \o, so that path and href manipulation is computed the way   *)
(* the Python code computes it.  The filesystem is a set of absolute paths *)
(* of regular files; directories are the ancestors of those files.         *)
(***************************************************************************)
EXTENDS Integers, Sequences, FiniteSets, TLC

-----------------------------------------------------------------------------
(* Python str primitives *)

\* s[i] of a string, 1-based, as a one-character string
Char(s, i) == SubSeq(s, i, i)

\* str.startswith
StartsWith(s, p) == Len(s) >= Len(p) /\ SubSeq(s, 1, Len(p)) = p

\* str.endswith
EndsWith(s, p) == Len(s) >= Len(p) /\ SubSeq(s, Len(s) - Len(p) + 1, Len(s)) = p

\* str.find for a one-character needle, 1-based; 0 when absent
RECURSIVE FindFrom(_, _, _)
FindFrom(s, c, i) ==
    IF i > Len(s) THEN 0
    ELSE IF Char(s, i) = c THEN i
    ELSE FindFrom(s, c, i + 1)

Find(s, c) == FindFrom(s, c, 1)

\* str.rfind for a one-character needle, 1-based; 0 when absent
RECURSIVE RFindFrom(_, _, _)
RFindFrom(s, c, i) ==
    IF i < 1 THEN 0
    ELSE IF Char(s, i) = c THEN i
    ELSE RFindFrom(s, c, i - 1)

RFind(s, c) == RFindFrom(s, c, Len(s))

\* the Python test `sub in s`
Contains(s, sub) ==
    \E i \in 1..(Len(s) - Len(sub) + 1) : SubSeq(s, i, i + Len(sub) - 1) = sub

\* s.split(c)[0]
SplitFirst(s, c) ==
    LET i == Find(s, c) IN IF i = 0 THEN s ELSE SubSeq(s, 1, i - 1)

\* str.lstrip(c) for a one-character c
RECURSIVE LStrip(_, _)
LStrip(s, c) ==
    IF Len(s) > 0 /\ Char(s, 1) = c THEN LStrip(SubSeq(s, 2, Len(s)), c) ELSE s

\* str.rstrip(c) for a one-character c
RECURSIVE RStrip(_, _)
RStrip(s, c) ==
    IF Len(s) > 0 /\ Char(s, Len(s)) = c THEN RStrip(SubSeq(s, 1, Len(s) - 1), c) ELSE s

\* s.replace('//', '/'): non-overlapping occurrences, left to right
RECURSIVE ReplaceDoubleSlash(_)
ReplaceDoubleSlash(s) ==
    IF Len(s) < 2 THEN s
    ELSE IF SubSeq(s, 1, 2) = "//"
         THEN "/" \o ReplaceDoubleSlash(SubSeq(s, 3, Len(s)))
         ELSE Char(s, 1) \o ReplaceDoubleSlash(SubSeq(s, 2, Len(s)))

\* s.split('/') as a sequence of strings
RECURSIVE SplitSlash(_)
SplitSlash(s) ==
    LET i == Find(s, "/") IN
    IF i = 0 THEN <<s>>
    ELSE <<SubSeq(s, 1, i - 1)>> \o SplitSlash(SubSeq(s, i + 1, Len(s)))

\* '/'.join(parts)
RECURSIVE JoinSlash(_)
JoinSlash(parts) ==
    IF Len(parts) = 0 THEN ""
    ELSE IF Len(parts) = 1 THEN parts[1]
    ELSE parts[1] \o "/" \o JoinSlash(Tail(parts))

\* ', '.join(parts)
RECURSIVE JoinComma(_)
JoinComma(parts) ==
    IF Len(parts) = 0 THEN ""
    ELSE IF Len(parts) = 1 THEN parts[1]
    ELSE parts[1] \o ", " \o JoinComma(Tail(parts))

-----------------------------------------------------------------------------
(* posixpath, as os.path works on the audited tree *)

\* os.path.join(a, b)
PathJoin(a, b) ==
    IF StartsWith(b, "/") THEN b
    ELSE IF a = "" \/ EndsWith(a, "/") THEN a \o b
    ELSE a \o "/" \o b

\* os.path.dirname(p)
PathDirname(p) ==
    LET i == RFind(p, "/")
        head == SubSeq(p, 1, i)
    IN IF head # "" /\ RStrip(head, "/") # "" THEN RStrip(head, "/") ELSE head

\* os.path.basename(p)
PathBasename(p) == SubSeq(p, RFind(p, "/") + 1, Len(p))

\* os.path.splitext(p)[0]: the extension starts at the last dot of the last
\* component, unless only dots precede it there
SplitextRoot(p) ==
    LET sep == RFind(p, "/")
        dot == RFind(p, ".")
    IN IF dot > sep /\ (\E k \in (sep + 1)..(dot - 1) : Char(p, k) # ".")
       THEN SubSeq(p, 1, dot - 1)
       ELSE p

\* the components of os.path.normpath(p) for an absolute p: empty and '.'
\* components dropped, '..' cancelling the component before it
RECURSIVE NormComps(_, _)
NormComps(comps, acc) ==
    IF Len(comps) = 0 THEN acc
    ELSE LET c == Head(comps) IN
         IF c = "" \/ c = "." THEN NormComps(Tail(comps), acc)
         ELSE IF c = ".."
              THEN NormComps(Tail(comps),
                             IF Len(acc) = 0 THEN acc ELSE SubSeq(acc, 1, Len(acc) - 1))
              ELSE NormComps(Tail(comps), Append(acc, c))

AbsComps(p) == NormComps(SplitSlash(p), <<>>)

\* length of the common prefix of two component lists
RECURSIVE CommonLen(_, _)
CommonLen(a, b) ==
    IF Len(a) = 0 \/ Len(b) = 0 \/ Head(a) # Head(b) THEN 0
    ELSE 1 + CommonLen(Tail(a), Tail(b))

\* os.path.relpath(path, start) for absolute path and start
PathRelpath(path, start) ==
    LET sl == AbsComps(start)
        pl == AbsComps(path)
        i == CommonLen(sl, pl)
        rel == [k \in 1..(Len(sl) - i) |-> ".."] \o SubSeq(pl, i + 1, Len(pl))
    IN IF Len(rel) = 0 THEN "." ELSE JoinSlash(rel)

-----------------------------------------------------------------------------
(* The audited filesystem *)

\* SEOAudit.root_dir, an absolute path
RootDir == "/site"

\* The absolute path of a component list
CompsPath(comps) == "/" \o JoinSlash(comps)

\* The directories of a tree: every proper ancestor of one of its files
\* and the root directory itself with its ancestors
Ancestors(comps) == {SubSeq(comps, 1, k) : k \in 0..(Len(comps) - 1)}

TreeDirs(tree) ==
    UNION {Ancestors(AbsComps(f)) : f \in tree}
        \cup Ancestors(AbsComps(RootDir)) \cup {AbsComps(RootDir)}

\* What the operating system finds at path p (absolute): it walks the raw
\* components left to right; a component after a regular file fails, '..'
\* steps to the parent of a directory that exists
RECURSIVE StatWalk(_, _, _, _)
StatWalk(tree, raw, cur, kind) ==
    IF Len(raw) = 0 THEN kind
    ELSE IF kind # "dir" THEN "none"
    ELSE LET c == Head(raw) IN
         IF c = "" \/ c = "." THEN StatWalk(tree, Tail(raw), cur, kind)
         ELSE IF c = ".."
              THEN StatWalk(tree, Tail(raw),
                            IF Len(cur) = 0 THEN cur ELSE SubSeq(cur, 1, Len(cur) - 1),
                            "dir")
              ELSE LET nxt == Append(cur, c) IN
                   StatWalk(tree, Tail(raw), nxt,
                            IF CompsPath(nxt) \in tree THEN "file"
                            ELSE IF nxt \in TreeDirs(tree) THEN "dir"
                            ELSE "none")

Stat(tree, p) == StatWalk(tree, Tail(SplitSlash(p)), <<>>, "dir")

\* os.path.isfile(p), os.path.isdir(p)
IsFile(tree, p) == Stat(tree, p) = "file"

IsDir(tree, p) == Stat(tree, p) = "dir"

-----------------------------------------------------------------------------
(* SEOAudit.__init__ *)

\* self.ignore_paths
ignore_paths == {".git", "node_modules", "__pycache__", ".vscode", ".idea"}

\* self.ignore_urls_start
ignore_urls_start == <<"/go/", "cdn-cgi", "javascript:", "mailto:", "#", "tel:">>

\* self.ignore_files_contain
ignore_files_contain == <<"google", "404.html">>

\* Python's None where the code only tests the value for truth: the empty
\* string, which is false as well and is never a resolved path or a base URL
None == ""

-----------------------------------------------------------------------------
(* SEOAudit.scan_files *)

\* The page id scan_files gives the file named `file` at rel_path
ScanPageId(rel_path, file) ==
    LET raw == IF file = "index.html"
               THEN LET d == "/" \o PathDirname(rel_path) IN
                    IF d = "/." THEN "/" ELSE d
               ELSE "/" \o SplitextRoot(rel_path)
    IN ReplaceDoubleSlash(raw)

\* scan_files keeps a file name: it ends in .html and holds no ignored part
KeepsFile(file) ==
    /\ EndsWith(file, ".html")
    /\ ~ \E k \in 1..Len(ignore_files_contain) : Contains(file, ignore_files_contain[k])

\* The record scan_files appends for the file `file` of directory `root`
FileInfo(root, file) ==
    LET full_path == PathJoin(root, file)
        rel_path == PathRelpath(full_path, RootDir)
    IN [path |-> full_path, rel_path |-> rel_path, id |-> ScanPageId(rel_path, file)]

\* All orderings of a finite set
Perms(S) ==
    {p \in [1..Cardinality(S) -> S] : \A i, j \in 1..Cardinality(S) : p[i] = p[j] => i = j}

\* The names directly inside directory d (a component list): regular files
\* and subdirectories
DirFiles(tree, d) ==
    {AbsComps(f)[Len(d) + 1] : f \in {g \in tree : Len(AbsComps(g)) = Len(d) + 1
                                                   /\ SubSeq(AbsComps(g), 1, Len(d)) = d}}

DirSubdirs(tree, d) ==
    {s[Len(d) + 1] : s \in {t \in TreeDirs(tree) : Len(t) = Len(d) + 1
                                                   /\ SubSeq(t, 1, Len(d)) = d}}

\* os.walk(top) as scan_files consumes it: the files of a directory in the
\* order the directory lists them (any order), then each kept subdirectory in
\* turn, pruned of ignore_paths before descending.  The set of every sequence
\* of records the walk can produce.
RECURSIVE Walk(_, _), WalkEach(_, _, _)
Walk(tree, d) ==
    LET kept == {f \in DirFiles(tree, d) : KeepsFile(f)}
        subs == {s \in DirSubdirs(tree, d) : s \notin ignore_paths}
    IN {[i \in 1..Len(fp) |-> FileInfo(CompsPath(d), fp[i])] \o rest :
            fp \in Perms(kept),
            rest \in UNION {WalkEach(tree, d, dp) : dp \in Perms(subs)}}

WalkEach(tree, d, dseq) ==
    IF Len(dseq) = 0 THEN {<<>>}
    ELSE {w \o rest : w \in Walk(tree, Append(d, Head(dseq))),
                      rest \in WalkEach(tree, d, Tail(dseq))}

\* The values files_to_scan can have after scan_files
ScanResults(tree) == Walk(tree, AbsComps(RootDir))

-----------------------------------------------------------------------------
(* SEOAudit.resolve_local_path *)

\* resolve_local_path trying the directory index before the .html file
resolve_index_first(t, link_href, current_file_path) ==
    LET href == SplitFirst(SplitFirst(link_href, "#"), "?")
        current_dir == PathDirname(current_file_path)
        target_path_part == IF StartsWith(href, "/") THEN LStrip(href, "/") ELSE href
        root == IF StartsWith(href, "/") THEN RootDir ELSE current_dir
        base_target == PathJoin(root, target_path_part)
    IN IF href = "" THEN None
       ELSE IF IsFile(t, base_target) THEN base_target
       ELSE IF IsDir(t, base_target) /\ IsFile(t, PathJoin(base_target, "index.html"))
            THEN PathJoin(base_target, "index.html")
       ELSE IF IsFile(t, base_target \o ".html") THEN base_target \o ".html"
       ELSE None

\* resolve_local_path with the project root as a second root of a relative
\* href: potential_roots = [current_dir, self.root_dir]
resolve_both_roots(t, link_href, current_file_path) ==
    LET href == SplitFirst(SplitFirst(link_href, "#"), "?")
        current_dir == PathDirname(current_file_path)
        target_path_part == IF StartsWith(href, "/") THEN LStrip(href, "/") ELSE href
        roots == IF StartsWith(href, "/") THEN <<RootDir>> ELSE <<current_dir, RootDir>>
        Try(root) ==
            LET base_target == PathJoin(root, target_path_part) IN
            IF IsFile(t, base_target) THEN base_target
            ELSE IF IsFile(t, base_target \o ".html") THEN base_target \o ".html"
            ELSE IF IsDir(t, base_target) /\ IsFile(t, PathJoin(base_target, "index.html"))
                 THEN PathJoin(base_target, "index.html")
            ELSE None
    IN IF href = "" THEN None
       ELSE IF Try(roots[1]) # None THEN Try(roots[1])
       ELSE IF Len(roots) > 1 THEN Try(roots[2])
       ELSE None

\* Returns the path of the file the link resolves to, or None
resolve_local_path(t, link_href, current_file_path) ==
    LET href == SplitFirst(SplitFirst(link_href, "#"), "?")
        current_dir == PathDirname(current_file_path)
        target_path_part == IF StartsWith(href, "/") THEN LStrip(href, "/") ELSE href
        root == IF StartsWith(href, "/") THEN RootDir ELSE current_dir
        base_target == PathJoin(root, target_path_part)
    IN IF href = "" THEN None
       ELSE IF IsFile(t, base_target) THEN base_target
       ELSE IF IsFile(t, base_target \o ".html") THEN base_target \o ".html"
       ELSE IF IsDir(t, base_target) /\ IsFile(t, PathJoin(base_target, "index.html"))
            THEN PathJoin(base_target, "index.html")
       ELSE None

\* The page id check_internal_link gives a resolved file
TargetId(target_file) ==
    LET rel_target == PathRelpath(target_file, RootDir)
        raw == IF PathBasename(rel_target) = "index.html"
               THEN LET d == "/" \o PathDirname(rel_target) IN
                    IF d = "/." THEN "/" ELSE d
               ELSE "/" \o SplitextRoot(rel_target)
    IN ReplaceDoubleSlash(raw)

-----------------------------------------------------------------------------
(* The state of one run of SEOAudit.run *)

VARIABLES
    tree,            \* the files on disk: absolute paths of regular files
    home,            \* what index.html declares: [canonical, og_url], None if absent
    pc,              \* where run() is
    base_url,        \* self.base_url
    files_to_scan,   \* self.files_to_scan: sequence of [path, rel_path, id]
    idx,             \* position of the for loop of run() in files_to_scan
    internal_links,  \* self.internal_links: ordered dict, sequence of [key, val]
    external_links,  \* self.external_links: ordered dict, sequence of [key, val]
    issues,          \* self.issues: sequence of [type, message, file, deduct]
    score,           \* self.score
    futures,         \* check_external_links: url -> state of its future
    top_pages,       \* print_report: sorted_pages
    nanchors,        \* anchors read so far in this run
    last,            \* the anchor the last analyze_links iteration read
    call,            \* resolve_local_path called on its own: [href, path]
    resolved,        \* what that call returned
    visited          \* the pages the for loop of run() is through, and how
                     \* each ended: sequence of [id, outcome]

vars == <<tree, home, pc, base_url, files_to_scan, idx, internal_links,
          external_links, issues, score, futures, top_pages, nanchors, last,
          call, resolved, visited>>

\* The part of the object the analysis methods write
Audit == [issues |-> issues, score |-> score,
          internal_links |-> internal_links, external_links |-> external_links]

\* Keys of an ordered dict
Keys(d) == {d[i].key : i \in 1..Len(d)}

\* d[k] of an ordered dict that has key k
Get(d, k) == d[CHOOSE i \in 1..Len(d) : d[i].key = k].val

\* defaultdict(list): d[k].append(v); a missing key is inserted last
DictAppend(d, k, v) ==
    IF k \in Keys(d)
    THEN [i \in 1..Len(d) |-> IF d[i].key = k
                              THEN [key |-> k, val |-> Append(d[i].val, v)]
                              ELSE d[i]]
    ELSE Append(d, [key |-> k, val |-> <<v>>])

-----------------------------------------------------------------------------
(* SEOAudit.add_issue *)

\* add_issue without the floor at zero
add_issue_unfloored(A, type, message, file, deduct) ==
    [A EXCEPT !.issues = Append(@, [type |-> type, message |-> message,
                                    file |-> file, deduct |-> deduct]),
              !.score = A.score - deduct]

\* add_issue deducting from the base score instead of the running score
add_issue_from_base(A, type, message, file, deduct) ==
    LET less == 100 - deduct IN
    [A EXCEPT !.issues = Append(@, [type |-> type, message |-> message,
                                    file |-> file, deduct |-> deduct]),
              !.score = IF less > 0 THEN less ELSE 0]

add_issue(A, type, message, file, deduct) ==
    LET less == A.score - deduct IN
    [A EXCEPT !.issues = Append(@, [type |-> type, message |-> message,
                                    file |-> file, deduct |-> deduct]),
              !.score = IF less > 0 THEN less ELSE 0]

-----------------------------------------------------------------------------
(* SEOAudit.auto_configure *)

\* self.base_url after auto_configure; parsed: open and BeautifulSoup gave
\* the soup of index.html (when one of them raises, the except clause logs
\* the failure and base_url keeps the None of __init__)
auto_configure(t, h, parsed) ==
    IF IsFile(t, PathJoin(RootDir, "index.html")) /\ parsed
    THEN LET found == IF h.canonical # None THEN h.canonical
                      ELSE IF h.og_url # None THEN h.og_url
                      ELSE None
         IN IF found # None THEN RStrip(found, "/") ELSE None
    ELSE None

-----------------------------------------------------------------------------
(* SEOAudit.analyze_semantics *)

\* str(n) for n >= 0
RECURSIVE IntStr(_)
IntStr(n) ==
    IF n < 10 THEN Char("0123456789", n + 1)
    ELSE IntStr(n \div 10) \o Char("0123456789", (n % 10) + 1)

\* sem: what the parsed page holds, [h1 |-> number of h1 elements,
\* schema |-> it has an ld+json script, breadcrumb |-> it has a breadcrumb]
analyze_semantics(A, sem, file_info) ==
    LET A1 == IF sem.h1 = 0
              THEN add_issue(A, "ERROR", "Missing H1 tag", file_info.rel_path, 5)
              ELSE IF sem.h1 > 1
              THEN add_issue(A, "WARN",
                             "Multiple H1 tags found (" \o IntStr(sem.h1) \o ")",
                             file_info.rel_path, 0)
              ELSE A
        A2 == IF ~ sem.schema
              THEN add_issue(A1, "WARN", "Missing Schema (application/ld+json)",
                             file_info.rel_path, 2)
              ELSE A1
    IN IF ~ sem.breadcrumb /\ file_info.rel_path # "index.html"
       THEN add_issue(A2, "WARN", "Missing Breadcrumb navigation", file_info.rel_path, 0)
       ELSE A2

-----------------------------------------------------------------------------
(* SEOAudit.check_internal_link *)

\* check_internal_link recording the edge before it knows the link resolves
check_internal_link_eager(A, t, href, file_info) ==
    LET target_file == resolve_local_path(t, href, file_info.path)
        A1 == [A EXCEPT !.internal_links =
                            DictAppend(@, IF target_file # None
                                          THEN TargetId(target_file) ELSE href,
                                       file_info.id)]
    IN IF target_file # None THEN A1
       ELSE add_issue(A1, "ERROR", "Dead Internal Link: " \o href,
                      file_info.rel_path, 10)

check_internal_link(A, t, href, file_info) ==
    LET A1 == IF ~ StartsWith(href, "/")
              THEN add_issue(A, "WARN", "Relative path used: " \o href,
                             file_info.rel_path, 2)
              ELSE A
        A2 == IF EndsWith(href, ".html")
              THEN add_issue(A1, "WARN", "Link includes .html suffix: " \o href,
                             file_info.rel_path, 2)
              ELSE A1
        target_file == resolve_local_path(t, href, file_info.path)
    IN IF target_file # None
       THEN [A2 EXCEPT !.internal_links =
                           DictAppend(@, TargetId(target_file), file_info.id)]
       ELSE add_issue(A2, "ERROR", "Dead Internal Link: " \o href,
                      file_info.rel_path, 10)

-----------------------------------------------------------------------------
(* SEOAudit.analyze_links: one iteration of its loop, on anchor a =           *)
(* [href |-> the href attribute, rel |-> the tokens of the rel attribute]     *)

\* [r for r in ['nofollow', 'noopener', 'noreferrer'] if r not in rel]
RECURSIVE MissingOf(_, _)
MissingOf(wanted, rel) ==
    IF Len(wanted) = 0 THEN <<>>
    ELSE (IF \E k \in 1..Len(rel) : rel[k] = Head(wanted) THEN <<>> ELSE <<Head(wanted)>>)
             \o MissingOf(Tail(wanted), rel)

Missing(rel) == MissingOf(<<"nofollow", "noopener", "noreferrer">>, rel)

\* the ignore test with a list that lacks '/go/'
IsIgnoredHrefButGo(href) ==
    \E k \in 2..Len(ignore_urls_start) : StartsWith(href, ignore_urls_start[k])

\* any(href.startswith(p) for p in self.ignore_urls_start)
IsIgnoredHref(href) ==
    \E k \in 1..Len(ignore_urls_start) : StartsWith(href, ignore_urls_start[k])

\* urlsplit: for b in _UNSAFE_URL_BYTES_TO_REMOVE: url = url.replace(b, "")
RECURSIVE RemoveUnsafe(_)
RemoveUnsafe(s) ==
    IF Len(s) <= 1
    THEN (IF s \in {"\t", "\r", "\n"} THEN "" ELSE s)
    ELSE RemoveUnsafe(SubSeq(s, 1, Len(s) \div 2))
             \o RemoveUnsafe(SubSeq(s, (Len(s) \div 2) + 1, Len(s)))

\* str.split(c) for a one-character c
RECURSIVE Split(_, _)
Split(s, c) ==
    LET i == Find(s, c)
    IN IF i = 0 THEN <<s>>
       ELSE <<SubSeq(s, 1, i - 1)>> \o Split(SubSeq(s, i + 1, Len(s)), c)

\* every character of s is one of chars
AllIn(s, chars) ==
    \A i \in 1..Len(s) : \E k \in 1..Len(chars) : Char(s, i) = Char(chars, k)

\* int(s, 10) of a string of decimal digits
RECURSIVE DecInt(_)
DecInt(s) ==
    IF s = "" THEN 0
    ELSE 10 * DecInt(SubSeq(s, 1, Len(s) - 1)) + (Find("0123456789", Char(s, Len(s))) - 1)

\* '%x' % n
RECURSIVE Hex(_)
Hex(n) ==
    IF n < 16 THEN Char("0123456789abcdef", n + 1)
    ELSE Hex(n \div 16) \o Char("0123456789abcdef", (n % 16) + 1)

\* ipaddress._BaseV4._parse_octet raises ValueError
parse_octet_raises(octet_str) ==
    \/ octet_str = ""
    \/ ~ AllIn(octet_str, "0123456789")
    \/ Len(octet_str) > 3
    \/ octet_str # "0" /\ Char(octet_str, 1) = "0"
    \/ DecInt(octet_str) > 255

\* ipaddress.IPv4Address(address) raises AddressValueError
IPv4Address_raises(address) ==
    \/ Find(address, "/") # 0
    \/ address = ""
    \/ LET octets == Split(address, ".")
       IN \/ Len(octets) # 4
          \/ \E k \in 1..Len(octets) : parse_octet_raises(octets[k])

\* ipaddress._BaseV6._parse_hextet raises ValueError (int('', 16) does)
parse_hextet_raises(hextet_str) ==
    \/ ~ AllIn(hextet_str, "0123456789abcdefABCDEF")
    \/ Len(hextet_str) > 4
    \/ hextet_str = ""

\* ipaddress._BaseV6._ip_int_from_string raises AddressValueError
ip_int_from_string_raises(ip_str) ==
    LET split == Split(ip_str, ":")
        dotted == split[Len(split)]
        octets == Split(dotted, ".")
        parts == IF Find(dotted, ".") # 0
                 THEN SubSeq(split, 1, Len(split) - 1)
                          \o <<Hex(256 * DecInt(octets[1]) + DecInt(octets[2])),
                               Hex(256 * DecInt(octets[3]) + DecInt(octets[4]))>>
                 ELSE split
        n == Len(parts)
        skips == {i \in 2..(n - 1) : parts[i] = ""}
        skip_index == CHOOSE i \in skips : TRUE
        hi0 == skip_index - 1
        lo0 == n - skip_index
        parts_hi == IF parts[1] = "" THEN hi0 - 1 ELSE hi0
        parts_lo == IF parts[n] = "" THEN lo0 - 1 ELSE lo0
    IN \/ ip_str = ""
       \/ Len(split) < 3
       \/ Find(dotted, ".") # 0 /\ IPv4Address_raises(dotted)
       \/ n > 9
       \/ Cardinality(skips) > 1
       \/ IF skips # {}
          THEN \/ parts[1] = "" /\ parts_hi # 0
               \/ parts[n] = "" /\ parts_lo # 0
               \/ 8 - (parts_hi + parts_lo) < 1
               \/ \E i \in 1..parts_hi : parse_hextet_raises(parts[i])
               \/ \E i \in (n - parts_lo + 1)..n : parse_hextet_raises(parts[i])
          ELSE \/ n # 8
               \/ parts[1] = ""
               \/ parts[n] = ""
               \/ \E i \in 1..n : parse_hextet_raises(parts[i])

\* ipaddress.IPv6Address(address) raises AddressValueError
IPv6Address_raises(address) ==
    LET pct == Find(address, "%")
        addr == IF pct = 0 THEN address ELSE SubSeq(address, 1, pct - 1)
        scope_id == SubSeq(address, pct + 1, Len(address))
    IN \/ Find(address, "/") # 0
       \/ pct # 0 /\ (scope_id = "" \/ Find(scope_id, "%") # 0)
       \/ ip_int_from_string_raises(addr)

\* urllib.parse._check_bracketed_host raises ValueError: the host between
\* the brackets is no IPvFuture address (v<hex>.<text>) and no IPv6 address
check_bracketed_host_raises(hostname) ==
    IF StartsWith(hostname, "v")
    THEN LET dot == Find(hostname, ".")
         IN ~ (/\ dot >= 3
               /\ AllIn(SubSeq(hostname, 2, dot - 1), "0123456789abcdefABCDEF")
               /\ Len(hostname) > dot)
    ELSE \/ ~ IPv4Address_raises(hostname)
         \/ IPv6Address_raises(hostname)

\* index of the first of '/', '?', '#' in s, or Len(s) + 1
RECURSIVE NetlocEnd(_, _)
NetlocEnd(s, i) ==
    IF i > Len(s) \/ Char(s, i) \in {"/", "?", "#"} THEN i ELSE NetlocEnd(s, i + 1)

\* urlsplit of an http:// or https:// href, after the scheme and the two
\* slashes: tab, CR and LF are removed from the url first
UrlRest(href) ==
    LET url == RemoveUnsafe(href) IN SubSeq(url, Find(url, ":") + 3, Len(url))

\* the netloc urlparse finds in an http:// or https:// href
UrlNetloc(href) ==
    LET rest == UrlRest(href)
    IN SubSeq(rest, 1, NetlocEnd(rest, 1) - 1)

\* urlparse(href) raises ValueError: one bracket of the netloc lacks the
\* other ("Invalid IPv6 URL"), or the host between the brackets is refused.
\* (_checknetloc returns at once on an ASCII netloc, and the strings here
\* are ASCII.)
urlparse_raises(href) ==
    LET netloc == UrlNetloc(href)
        open == Find(netloc, "[")
        close == Find(netloc, "]")
        bracketed_host == SplitFirst(SubSeq(netloc, open + 1, Len(netloc)), "]")
    IN \/ open # 0 /\ close = 0
       \/ close # 0 /\ open = 0
       \/ open # 0 /\ close # 0 /\ check_bracketed_host_raises(bracketed_host)

\* urlparse(href).path of an http:// or https:// href: what follows the
\* netloc, without fragment, query and the parameters of its last segment
UrlPath(href) ==
    LET rest == UrlRest(href)
        after == SubSeq(rest, NetlocEnd(rest, 1), Len(rest))
        url == SplitFirst(SplitFirst(after, "#"), "?")
        semi == IF url = "" THEN 0 ELSE FindFrom(url, ";", RFind(url, "/"))
    IN IF semi = 0 THEN url ELSE SubSeq(url, 1, semi - 1)

\* The soft-route check that precedes the ignore list
soft_route(A, a, file_info) ==
    IF StartsWith(a.href, "/go/") /\ Missing(a.rel) # <<>>
    THEN add_issue(A, "WARN",
                   "Soft Route link missing rel attributes (" \o JoinComma(Missing(a.rel))
                       \o "): " \o a.href,
                   file_info.rel_path, 2)
    ELSE A

\* external_links with the page recorded once more under every url it
\* is not yet listed for
record_external_once(d, href, rel_path) ==
    IF href \in Keys(d) /\ \E k \in 1..Len(Get(d, href)) : Get(d, href)[k] = rel_path
    THEN d
    ELSE DictAppend(d, href, rel_path)

\* self.external_links[href].append(file_info['rel_path'])
record_external(d, href, rel_path) == DictAppend(d, href, rel_path)

\* the iteration ends in an exception: urlparse raises on the href
link_raises(base, a) ==
    /\ ~ IsIgnoredHref(a.href)
    /\ StartsWith(a.href, "http://") \/ StartsWith(a.href, "https://")
    /\ base # None
    /\ StartsWith(a.href, base)
    /\ urlparse_raises(a.href)

\* the object after the iteration; when link_raises, up to the exception
analyze_link(A, t, base, a, file_info) ==
    LET A1 == soft_route(A, a, file_info)
        href == a.href
    IN IF IsIgnoredHref(href) THEN A1
       ELSE IF StartsWith(href, "http://") \/ StartsWith(href, "https://")
       THEN IF base # None /\ StartsWith(href, base)
            THEN LET A2 == add_issue(A1, "WARN",
                                     "Internal link using absolute URL: " \o href,
                                     file_info.rel_path, 2)
                     path == IF UrlPath(href) = "" THEN "/" ELSE UrlPath(href)
                 IN IF urlparse_raises(href) THEN A2
                    ELSE check_internal_link(A2, t, path, file_info)
            ELSE LET A2 == [A1 EXCEPT !.external_links =
                                          record_external(@, href, file_info.rel_path)]
                 IN IF Missing(a.rel) # <<>>
                    THEN add_issue(A2, "WARN",
                                   "External link missing rel attributes ("
                                       \o JoinComma(Missing(a.rel)) \o "): " \o href,
                                   file_info.rel_path, 2)
                    ELSE A2
       ELSE check_internal_link(A1, t, href, file_info)

-----------------------------------------------------------------------------
(* SEOAudit.check_external_links *)

\* What one request does: it raises (exc, with the exception's text) or it
\* answers with a status code
Answer(code) == [exc |-> FALSE, code |-> code, text |-> ""]

Raises(text) == [exc |-> TRUE, code |-> 0, text |-> text]

\* the urls check_url answers 200 for without a request
skips_probe(url) ==
    Contains(url, "help.x.com") \/ Contains(url, "twitter.com") \/ Contains(url, "x.com")

\* the retry taken after any answer that is an error
retries_on_error(head) == ~ head.exc /\ head.code >= 400

\* the test that sends requests.get after requests.head
retries_with_get(head) == ~ head.exc /\ (head.code = 405 \/ head.code = 403)

\* check_url(url)[1], given what requests.head and requests.get would do
check_url(url, head, get) ==
    IF skips_probe(url)
    THEN Answer(200)
    ELSE IF head.exc THEN head
    ELSE LET response == IF retries_with_get(head) THEN get ELSE head IN
         IF response.exc THEN response
         ELSE IF response.code >= 400 THEN Answer(response.code)
         ELSE Answer(200)

\* the test looking at status codes only
NotOkStatusCode(status) == ~ status.exc /\ status.code # 200

\* the test `status != 200`
NotOk(status) == status.exc \/ status.code # 200

\* what the f-string prints for {status}
StatusText(status) == IF status.exc THEN status.text ELSE IntStr(status.code)

\* the loop body appending the issue without the score's decrement
collect_without_decrement(A, url, status) ==
    IF NotOk(status)
    THEN [A EXCEPT !.issues = Append(@, [type |-> "ERROR",
                                         message |-> "Broken External Link: " \o url,
                                         file |-> "External", deduct |-> 5])]
    ELSE A

\* the body of the as_completed loop for one finished future
collect(A, url, status) ==
    IF NotOk(status)
    THEN LET refs == Get(A.external_links, url)
             sources == JoinComma(SubSeq(refs, 1, IF Len(refs) < 3 THEN Len(refs) ELSE 3))
                            \o (IF Len(refs) > 3 THEN "..." ELSE "")
         IN add_issue(A, "ERROR",
                      "Broken External Link (" \o StatusText(status) \o "): " \o url
                          \o " (found in " \o sources \o ")",
                      "External", 5)
    ELSE A

-----------------------------------------------------------------------------
(* SEOAudit.analyze_orphans *)

\* all_pages - linked_pages
Orphans(files, links) == {files[i].id : i \in 1..Len(files)} \ Keys(links)

\* analyze_orphans without the exemption of the home page
RECURSIVE analyze_orphans_all(_, _)
analyze_orphans_all(A, order) ==
    IF Len(order) = 0 THEN A
    ELSE analyze_orphans_all(add_issue(A, "WARN",
                                       "Orphan page (no incoming links): " \o Head(order),
                                       "Structure", 5),
                             Tail(order))

\* the loop over the set orphans, taken in the order `order`
RECURSIVE analyze_orphans(_, _)
analyze_orphans(A, order) ==
    IF Len(order) = 0 THEN A
    ELSE LET orphan == Head(order)
             A1 == IF orphan = "/" \/ orphan = "/index" THEN A
                   ELSE add_issue(A, "WARN",
                                  "Orphan page (no incoming links): " \o orphan,
                                  "Structure", 5)
         IN analyze_orphans(A1, Tail(order))

-----------------------------------------------------------------------------
(* SEOAudit.print_report: the top pages *)

\* the slice [:10]
TopN == 10

\* sorted(items, key=lambda x: len(x[1]), reverse=True): stable, so items of
\* equal length keep the order they have in the dict
RECURSIVE InsertDesc(_, _)
InsertDesc(sorted, item) ==
    IF Len(sorted) = 0 THEN <<item>>
    ELSE IF Len(Head(sorted).val) >= Len(item.val)
         THEN <<Head(sorted)>> \o InsertDesc(Tail(sorted), item)
         ELSE <<item>> \o sorted

RECURSIVE SortedDesc(_, _)
SortedDesc(items, acc) ==
    IF Len(items) = 0 THEN acc
    ELSE SortedDesc(Tail(items), InsertDesc(acc, Head(items)))

sorted_pages(links) ==
    LET all == SortedDesc(links, <<>>) IN
    SubSeq(all, 1, IF Len(all) < TopN THEN Len(all) ELSE TopN)

-----------------------------------------------------------------------------
(* The run, step by step *)

SetAudit(A) ==
    /\ issues' = A.issues
    /\ score' = A.score
    /\ internal_links' = A.internal_links
    /\ external_links' = A.external_links

NoAnchor == [href |-> "", rel |-> <<>>]

NoCall == [href |-> "", path |-> ""]

\* run() going on without pages: the loop has nothing to do
after_scan_without_return(found) == IF Len(found) = 0 THEN "external" ELSE "semantics"

\* run() after scan_files: it returns when nothing was found
after_scan(found) == IF Len(found) = 0 THEN "halted" ELSE "semantics"

\* the for loop of run() after page i: the next page, or check_external_links
after_page(i, files) == IF i = Len(files) THEN "external" ELSE "semantics"

\* the failure caught around the loop instead: no page follows
after_failure_outside_loop(i, files) == "external"

\* run() after the except clause caught a failure on page i: the clause is
\* inside the loop, which goes on
after_failure(i, files) == after_page(i, files)

\* the except clause recording the failure as an issue
page_failed_recorded(A, file_info) ==
    add_issue(A, "ERROR", "Error reading " \o file_info.rel_path, file_info.rel_path, 5)

\* the except clause of run(): the failure is logged, not recorded
page_failed(A, file_info) == A

\* A future of the pool: the state of its check_url call, the requests the
\* call has sent and what they did, and the status it returned
NewFuture ==
    [state |-> "pending", heads |-> 0, gets |-> 0,
     head |-> Answer(0), get |-> Answer(0), status |-> Answer(0)]

\* the loop left as soon as one future has been yielded
any_collected(fs) == \E v \in DOMAIN fs : fs[v].state = "collected"

\* as_completed is exhausted once the last future has been yielded
all_collected(fs) == \A v \in DOMAIN fs : fs[v].state = "collected"

\* The object after __init__, for a tree and a home page drawn from the sets
InitOf(Trees, Homes) ==
    /\ tree \in Trees
    /\ home \in Homes
    /\ pc = "configure"
    /\ base_url = None
    /\ files_to_scan = <<>>
    /\ idx = 0
    /\ internal_links = <<>>
    /\ external_links = <<>>
    /\ issues = <<>>
    /\ score = 100
    /\ futures = <<>>
    /\ top_pages = <<>>
    /\ nanchors = 0
    /\ last = NoAnchor
    /\ call = NoCall
    /\ resolved = None
    /\ visited = <<>>

\* run(): self.auto_configure(); index.html is parsed or fails to
AutoConfigure ==
    /\ pc = "configure"
    /\ \E parsed \in BOOLEAN : base_url' = auto_configure(tree, home, parsed)
    /\ pc' = "scan"
    /\ UNCHANGED <<tree, home, files_to_scan, idx, internal_links, external_links,
                   issues, score, futures, top_pages, nanchors, last, call, resolved,
                   visited>>

\* run(): self.scan_files(), and the return when nothing was found
ScanFiles ==
    /\ pc = "scan"
    /\ \E found \in ScanResults(tree) :
          /\ files_to_scan' = found
          /\ pc' = after_scan(found)
    /\ idx' = 1
    /\ UNCHANGED <<tree, home, base_url, internal_links, external_links,
                   issues, score, futures, top_pages, nanchors, last, call, resolved,
                   visited>>

\* run(): open, read or BeautifulSoup raises on the page; the except clause
\* of the loop catches it
ReadFails ==
    /\ pc = "semantics"
    /\ SetAudit(page_failed(Audit, files_to_scan[idx]))
    /\ visited' = Append(visited, [id |-> files_to_scan[idx].id, outcome |-> "unreadable"])
    /\ idx' = idx + 1
    /\ pc' = after_failure(idx, files_to_scan)
    /\ UNCHANGED <<tree, home, base_url, files_to_scan, futures, top_pages,
                   nanchors, last, call, resolved>>

\* run(): the page is read and parsed, then self.analyze_semantics
AnalyzeSemantics(Sems) ==
    /\ pc = "semantics"
    /\ \E sem \in Sems : SetAudit(analyze_semantics(Audit, sem, files_to_scan[idx]))
    /\ pc' = "links"
    /\ UNCHANGED <<tree, home, base_url, files_to_scan, idx, futures, top_pages,
                   nanchors, last, call, resolved, visited>>

\* analyze_links: one iteration of the loop over the anchors of the page; the
\* pages of a run hold at most Max anchors in total.  An iteration that
\* raises ends the page in the except clause of run()
AnalyzeLink(Anchors, Max) ==
    /\ pc = "links"
    /\ nanchors < Max
    /\ \E a \in Anchors :
          LET file == files_to_scan[idx]
              A == analyze_link(Audit, tree, base_url, a, file)
          IN /\ last' = a
             /\ IF link_raises(base_url, a)
                THEN /\ SetAudit(page_failed(A, file))
                     /\ visited' = Append(visited, [id |-> file.id, outcome |-> "partial"])
                     /\ idx' = idx + 1
                     /\ pc' = after_failure(idx, files_to_scan)
                ELSE /\ SetAudit(A)
                     /\ UNCHANGED <<visited, idx, pc>>
    /\ nanchors' = nanchors + 1
    /\ UNCHANGED <<tree, home, base_url, files_to_scan, futures, top_pages,
                   call, resolved>>

\* resolve_local_path called on its own
Resolve ==
    /\ pc = "call"
    /\ resolved' = resolve_local_path(tree, call.href, call.path)
    /\ pc' = "returned"
    /\ UNCHANGED <<tree, home, base_url, files_to_scan, idx, internal_links,
                   external_links, issues, score, futures, top_pages, nanchors,
                   last, call, visited>>

\* analyze_links returns: the for loop of run() takes the next page or ends
EndPage ==
    /\ pc = "links"
    /\ visited' = Append(visited, [id |-> files_to_scan[idx].id, outcome |-> "analyzed"])
    /\ idx' = idx + 1
    /\ pc' = after_page(idx, files_to_scan)
    /\ UNCHANGED <<tree, home, base_url, files_to_scan, internal_links,
                   external_links, issues, score, futures, top_pages, nanchors, last,
                   call, resolved>>

\* check_external_links: the dict comprehension submits the urls to the pool
\* one by one, in the order of external_links, and a worker may run a
\* submitted call at once; after the last url as_completed is entered
SubmitProbes ==
    /\ pc = "external"
    /\ LET n == Cardinality(DOMAIN futures) IN
       IF n < Len(external_links)
       THEN /\ futures' = [u \in DOMAIN futures \cup {external_links[n + 1].key} |->
                              IF u \in DOMAIN futures THEN futures[u] ELSE NewFuture]
            /\ pc' = "external"
       ELSE /\ futures' = futures
            /\ pc' = IF external_links = <<>> THEN "orphans" ELSE "probing"
    /\ UNCHANGED <<tree, home, base_url, files_to_scan, idx, internal_links,
                   external_links, issues, score, top_pages, nanchors, last, call,
                   resolved, visited>>

\* a worker runs check_url(url) up to the answer of requests.head: the call
\* returns there unless the answer makes it send requests.get
CheckUrlHead(Heads) ==
    /\ pc \in {"external", "probing"}
    /\ \E u \in DOMAIN futures :
          /\ futures[u].state = "pending"
          /\ IF skips_probe(u)
             THEN futures' = [futures EXCEPT ![u].state = "done",
                                             ![u].status = check_url(u, Answer(0), Answer(0))]
             ELSE \E h \in Heads :
                     futures' = [futures EXCEPT
                                    ![u].heads = @ + 1,
                                    ![u].head = h,
                                    ![u].state = IF retries_with_get(h) THEN "retry" ELSE "done",
                                    ![u].status = IF retries_with_get(h) THEN @
                                                  ELSE check_url(u, h, h)]
    /\ UNCHANGED <<tree, home, pc, base_url, files_to_scan, idx, internal_links,
                   external_links, issues, score, top_pages, nanchors, last, call,
                   resolved, visited>>

\* the worker sends requests.get and check_url returns
CheckUrlGet(Gets) ==
    /\ pc \in {"external", "probing"}
    /\ \E u \in DOMAIN futures, g \in Gets :
          /\ futures[u].state = "retry"
          /\ futures' = [futures EXCEPT ![u].gets = @ + 1,
                                        ![u].get = g,
                                        ![u].state = "done",
                                        ![u].status = check_url(u, futures[u].head, g)]
    /\ UNCHANGED <<tree, home, pc, base_url, files_to_scan, idx, internal_links,
                   external_links, issues, score, top_pages, nanchors, last, call,
                   resolved, visited>>

\* as_completed yields a finished future and the loop body runs on it; the
\* with block ends after the last one
Collect ==
    /\ pc = "probing"
    /\ \E u \in DOMAIN futures :
          /\ futures[u].state = "done"
          /\ SetAudit(collect(Audit, u, futures[u].status))
          /\ futures' = [futures EXCEPT ![u].state = "collected"]
          /\ pc' = IF all_collected(futures') THEN "orphans" ELSE "probing"
    /\ UNCHANGED <<tree, home, base_url, files_to_scan, idx, top_pages, nanchors,
                   last, call, resolved, visited>>

\* run(): self.analyze_orphans(); the set is iterated in some order
AnalyzeOrphans ==
    /\ pc = "orphans"
    /\ \E order \in Perms(Orphans(files_to_scan, internal_links)) :
          SetAudit(analyze_orphans(Audit, order))
    /\ pc' = "report"
    /\ UNCHANGED <<tree, home, base_url, files_to_scan, idx, futures, top_pages,
                   nanchors, last, call, resolved, visited>>

\* run(): self.print_report()
PrintReport ==
    /\ pc = "report"
    /\ top_pages' = sorted_pages(internal_links)
    /\ pc' = "done"
    /\ UNCHANGED <<tree, home, base_url, files_to_scan, idx, internal_links,
                   external_links, issues, score, futures, nanchors, last, call,
                   resolved, visited>>

NextOf(Sems, Anchors, Max, Heads, Gets) ==
    \/ AutoConfigure
    \/ ScanFiles
    \/ ReadFails
    \/ AnalyzeSemantics(Sems)
    \/ AnalyzeLink(Anchors, Max)
    \/ EndPage
    \/ SubmitProbes
    \/ CheckUrlHead(Heads)
    \/ CheckUrlGet(Gets)
    \/ Collect
    \/ AnalyzeOrphans
    \/ PrintReport

-----------------------------------------------------------------------------
(* The full run: few kinds of anchors, every kind of page and probe outcome *)

\* Bound on the anchors the pages of one full run hold in total
MaxAnchors == 2

AllRel == <<"nofollow", "noopener", "noreferrer">>

\* A site with a page and a directory index of the same name; a site with a
\* home page, a nested page and an ignored directory; a site whose home page
\* sits beside a directory named index; a site with no page at all
Trees ==
    { {"/site/a.html", "/site/a/index.html", "/site/style.css"},
      {"/site/index.html", "/site/blog/post.html", "/site/.git/h.html"},
      {"/site/index.html", "/site/index/index.html"},
      {"/site/readme.txt", "/site/node_modules/x.html", "/site/google1.html"} }

Homes == { [canonical |-> None, og_url |-> None] }

Sems ==
    { [h1 |-> 1, schema |-> TRUE, breadcrumb |-> TRUE],
      [h1 |-> 0, schema |-> FALSE, breadcrumb |-> FALSE] }

Anchors ==
    { [href |-> "/a", rel |-> <<>>],
      [href |-> "/", rel |-> <<>>],
      [href |-> "/missing", rel |-> <<>>],
      [href |-> "/blog/post", rel |-> <<>>],
      [href |-> "https://ext.org/x", rel |-> AllRel],
      [href |-> "https://ext.org/y", rel |-> <<>>] }

Heads == {Answer(200), Answer(403), Answer(404), Raises("timed out")}

Gets == {Answer(200), Answer(404)}

Init == InitOf(Trees, Homes)

Next == NextOf(Sems, Anchors, MaxAnchors, Heads, Gets)

Spec == Init /\ [][Next]_vars

-----------------------------------------------------------------------------
(* Link analysis: every kind of anchor, on pages without other findings *)

\* Bound on the anchors the pages of one link-analysis run hold in total
MaxLinkAnchors == 2

\* A home page and a nested page, beside a stylesheet, an ignored error
\* page, an ignored directory and a file outside the root
LinkTrees ==
    { {"/site/index.html", "/site/blog/post.html", "/site/style.css",
       "/site/404.html", "/site/.git/h.html", "/out.html"} }

\* The home page declares its canonical url; a run has no base url when
\* auto_configure fails to parse it
LinkHomes == { [canonical |-> "https://example.com/", og_url |-> None] }

LinkSems == { [h1 |-> 1, schema |-> TRUE, breadcrumb |-> TRUE] }

LinkAnchors ==
    { [href |-> "/blog/post", rel |-> <<>>],
      [href |-> "/blog/post?ref=1#top", rel |-> <<>>],
      [href |-> "/missing", rel |-> <<>>],
      [href |-> "post.html", rel |-> <<>>],
      [href |-> "?page=2", rel |-> <<>>],
      [href |-> "/style.css", rel |-> <<>>],
      [href |-> "/404", rel |-> <<>>],
      [href |-> "../out.html", rel |-> <<>>],
      [href |-> "/go/offer", rel |-> <<"nofollow">>],
      [href |-> "/go/offer", rel |-> <<>>],
      [href |-> "/go/blog/post", rel |-> <<"noreferrer", "nofollow", "noopener">>],
      [href |-> "#top", rel |-> <<>>],
      [href |-> "https://ext.org/x", rel |-> <<"nofollow", "noreferrer">>],
      [href |-> "https://example.com/blog/post", rel |-> <<>>],
      [href |-> "https://example.com", rel |-> AllRel],
      [href |-> "https://example.com]/blog/post", rel |-> AllRel],
      [href |-> "https://example.com[x]/blog/post", rel |-> AllRel],
      [href |-> "https://example.com/blog/\tpost", rel |-> AllRel] }

LinkHeads == {Answer(403)}

LinkGets == {Answer(200)}

InitLinks == InitOf(LinkTrees, LinkHomes)

NextLinks == NextOf(LinkSems, LinkAnchors, MaxLinkAnchors, LinkHeads, LinkGets)

SpecLinks == InitLinks /\ [][NextLinks]_vars

-----------------------------------------------------------------------------
(* Scoring: pages and anchors that cost the most, enough of them to spend   *)
(* the whole score                                                          *)

\* Bound on the anchors the pages of one scoring run hold in total
MaxScoreAnchors == 7

ScoreTrees == { {"/site/index.html", "/site/a.html"} }

ScoreSems ==
    { [h1 |-> 2, schema |-> TRUE, breadcrumb |-> TRUE],
      [h1 |-> 0, schema |-> FALSE, breadcrumb |-> FALSE] }

ScoreAnchors ==
    { [href |-> "gone.html", rel |-> <<>>],
      [href |-> "https://ext.org/x", rel |-> <<>>] }

ScoreHeads == {Answer(403), Answer(500)}

InitScore == InitOf(ScoreTrees, Homes)

NextScore == NextOf(ScoreSems, ScoreAnchors, MaxScoreAnchors, ScoreHeads, LinkGets)

SpecScore == InitScore /\ [][NextScore]_vars

-----------------------------------------------------------------------------
(* Probing: two pages that hold external anchors only, every outcome of the *)
(* two requests                                                             *)

\* Bound on the anchors the pages of one probing run hold in total
MaxProbeAnchors == 2

ProbeTrees == { {"/site/index.html", "/site/about.html"} }

ProbeAnchors ==
    { [href |-> "https://ext.org/x", rel |-> AllRel],
      [href |-> "http://old.example.net/", rel |-> AllRel],
      [href |-> "https://netflix.com/gone", rel |-> AllRel] }

ProbeHeads == {Answer(200), Answer(301), Answer(403), Answer(405), Answer(404),
               Raises("timed out")}

ProbeGets == {Answer(200), Answer(403), Raises("connection reset")}

InitProbe == InitOf(ProbeTrees, Homes)

NextProbe == NextOf(LinkSems, ProbeAnchors, MaxProbeAnchors, ProbeHeads, ProbeGets)

SpecProbe == InitProbe /\ [][NextProbe]_vars

-----------------------------------------------------------------------------
(* Failing pages: pages that cannot be read, and anchors that end the       *)
(* analysis of their page; every page that is analysed lacks its h1         *)

\* Bound on the anchors the pages of one such run hold in total
MaxFailAnchors == 3

FailTrees == { {"/site/index.html", "/site/a.html", "/site/docs/b.html"} }

FailHomes == { [canonical |-> "https://example.com/", og_url |-> None] }

FailSems == { [h1 |-> 0, schema |-> TRUE, breadcrumb |-> TRUE] }

FailAnchors ==
    { [href |-> "/docs/b", rel |-> <<>>],
      [href |-> "https://ext.org/x", rel |-> AllRel],
      [href |-> "https://example.com]/a", rel |-> <<>>] }

FailHeads == {Answer(405)}

FailGets == {Answer(200), Answer(404)}

InitFail == InitOf(FailTrees, FailHomes)

NextFail == NextOf(FailSems, FailAnchors, MaxFailAnchors, FailHeads, FailGets)

SpecFail == InitFail /\ [][NextFail]_vars

-----------------------------------------------------------------------------
(* The run to its end: every statement of run() that can execute does, and  *)
(* every request answers or raises (requests are sent with timeout=5)       *)

\* Bound on the anchors the pages of one such run hold in total
MaxLiveAnchors == 2

\* A site of two pages, and a site without any page
LiveTrees ==
    { {"/site/index.html", "/site/about.html"},
      {"/site/readme.txt", "/site/404.html"} }

LiveAnchors ==
    { [href |-> "/about", rel |-> <<>>],
      [href |-> "https://ext.org/x", rel |-> AllRel],
      [href |-> "http://old.example.net/", rel |-> AllRel] }

LiveHeads == {Answer(200), Answer(403), Raises("timed out")}

LiveGets == {Answer(200), Raises("timed out")}

InitLive == InitOf(LiveTrees, Homes)

NextLive == NextOf(LinkSems, LiveAnchors, MaxLiveAnchors, LiveHeads, LiveGets)

\* run() is sequential code: the statement it is at executes.  The loop over
\* the anchors of a page is finite, so analyze_links returns; a worker of the
\* pool gets the answer of its request or an exception, and as_completed
\* yields every future that is done.  (For ScanFiles, which is enabled
\* exactly when pc = "scan", weak fairness is written out.)
LiveFairness ==
    /\ WF_vars(AutoConfigure)
    /\ []<>(pc # "scan") \/ []<><<ScanFiles>>_vars
    /\ WF_vars(ReadFails \/ AnalyzeSemantics(LinkSems))
    /\ WF_vars(EndPage)
    /\ WF_vars(SubmitProbes)
    /\ WF_vars(CheckUrlHead(LiveHeads))
    /\ WF_vars(CheckUrlGet(LiveGets))
    /\ WF_vars(Collect)
    /\ WF_vars(AnalyzeOrphans)
    /\ WF_vars(PrintReport)

SpecLive == InitLive /\ [][NextLive]_vars /\ LiveFairness

-----------------------------------------------------------------------------
(* resolve_local_path on its own: an href and a referencing page of a tree *)

\* A tree where a name is a page, a directory index and a plain file; a tree
\* where the same relative path exists under the root and under a nested
\* directory; a tree where it exists under the root only
ResolveTrees ==
    { {"/site/index.html", "/site/a.html", "/site/a/index.html", "/site/c",
       "/site/c.html", "/site/style.css"},
      {"/site/index.html", "/site/post.html", "/site/blog/post.html",
       "/site/deep/nested/page.html", "/site/deep/nested/post.html",
       "/site/deep/nested/blog/post.html"},
      {"/site/index.html", "/site/post.html", "/site/blog/index.html",
       "/site/deep/nested/page.html", "/out.html"} }

ResolveHrefs ==
    { "/a", "a", "/a.html", "/a/", "/a/index.html", "/c", "c", "/style.css",
      "/blog/post", "blog/post", "/post", "post", "./post", "../post", "../../post",
      "/blog", "blog", "/blog/", "../out.html", "/missing", "missing",
      "/a?ref=1#top", "post#top", "#top", "?page=2", "" }

\* The pages of a tree that can hold the link
ResolvePages(t) == {f \in t : StartsWith(f, RootDir \o "/") /\ EndsWith(f, ".html")}

InitResolve ==
    /\ tree \in ResolveTrees
    /\ call \in {[href |-> h, path |-> f] : h \in ResolveHrefs,
                                           f \in UNION {ResolvePages(t) : t \in ResolveTrees}}
    /\ call.path \in tree
    /\ home = [canonical |-> None, og_url |-> None]
    /\ pc = "call"
    /\ base_url = None
    /\ files_to_scan = <<>>
    /\ idx = 0
    /\ internal_links = <<>>
    /\ external_links = <<>>
    /\ issues = <<>>
    /\ score = 100
    /\ futures = <<>>
    /\ top_pages = <<>>
    /\ nanchors = 0
    /\ last = NoAnchor
    /\ resolved = None
    /\ visited = <<>>

NextResolve == Resolve

SpecResolve == InitResolve /\ [][NextResolve]_vars

-----------------------------------------------------------------------------
(* The score *)

\* Sum of the deductions of a ledger
RECURSIVE SumDeduct(_)
SumDeduct(ledger) ==
    IF Len(ledger) = 0 THEN 0 ELSE Head(ledger).deduct + SumDeduct(Tail(ledger))

\* C1: in every reachable state of a run the score equals
\* max(0, 100 - the sum of the deductions of all issues in the ledger),
\* whichever of page analysis, link analysis, probing and orphan detection
\* recorded them.
ScoreIsFlooredDifference ==
    score = (IF 100 - SumDeduct(issues) > 0 THEN 100 - SumDeduct(issues) ELSE 0)

\* the deductions exceed the base score, and the issues came from every source
ScoreSpentByAllSources ==
    /\ SumDeduct(issues) > 100
    /\ score = 0
    /\ \E i \in 1..Len(issues) : issues[i].file = "External"
    /\ \E i \in 1..Len(issues) : issues[i].file = "Structure"
    /\ \E i \in 1..Len(issues) : StartsWith(issues[i].message, "Dead Internal Link")
    /\ \E i \in 1..Len(issues) : issues[i].message = "Missing H1 tag"

\* C2: the score never rises from one state of a run to the next, and it is
\* always within 0..100.
ScoreMonotoneAndBounded ==
    /\ [][score' <= score]_vars
    /\ [](score \in 0..100)

\* the score has reached zero and a further issue with a deduction was
\* recorded on top of it
ScoreStaysAtZero ==
    /\ score = 0
    /\ Len(issues) > 1
    /\ issues[Len(issues)].deduct > 0
    /\ SumDeduct(SubSeq(issues, 1, Len(issues) - 1)) >= 100

-----------------------------------------------------------------------------
(* Page identities and the link graph *)

\* The ids scan_files gave
PageIds == {files_to_scan[i].id : i \in 1..Len(files_to_scan)}

\* C3: after scan_files no two distinct PageRecords share an id.
UniquePageIds ==
    \A i, j \in 1..Len(files_to_scan) :
        files_to_scan[i].id = files_to_scan[j].id => i = j

\* C4: every key of internal_links is the id of a PageRecord of the indexer.
LinkKeysArePages == Keys(internal_links) \subseteq PageIds

\* One iteration of analyze_links has run
LinkStep == pc = "links" /\ nanchors' = nanchors + 1

\* The issues the step recorded
NewIssues == SubSeq(issues', Len(issues) + 1, Len(issues'))

IsHttp(href) == StartsWith(href, "http://") \/ StartsWith(href, "https://")

\* The anchor is neither on the ignore list nor a genuine external link
ReachesInternal(a, base) ==
    /\ ~ \E p \in {"/go/", "cdn-cgi", "javascript:", "mailto:", "#", "tel:"} :
           StartsWith(a.href, p)
    /\ IsHttp(a.href) => /\ base # None
                          /\ StartsWith(a.href, base)
                          /\ ~ urlparse_raises(a.href)

\* The href internal resolution is given
InternalHref(a) ==
    IF IsHttp(a.href) THEN (IF UrlPath(a.href) = "" THEN "/" ELSE UrlPath(a.href))
    ELSE a.href

\* new is old with v appended to the list of key k, and nothing else changed
EdgeAdded(old, new, k, v) ==
    /\ Keys(new) = Keys(old) \cup {k}
    /\ Len(new) = Cardinality(Keys(new))
    /\ Get(new, k) = (IF k \in Keys(old) THEN Get(old, k) ELSE <<>>) \o <<v>>
    /\ \A j \in Keys(old) \ {k} : Get(new, j) = Get(old, j)

\* C5: for every href that reaches internal resolution, either the resolver
\* finds a file, exactly one entry (the current page's id) is appended to
\* internal_links[target id] and no dead-link issue is recorded; or it finds
\* nothing, exactly one ERROR issue with deduction 10 naming the href is
\* recorded and internal_links is unchanged.
DeadLinkOrEdge ==
    [][(LinkStep /\ ReachesInternal(last', base_url)) =>
        LET file == files_to_scan[idx] IN
        \E h \in {InternalHref(last')} :
        \E target \in {resolve_local_path(tree, h, file.path)} :
        \E errors \in {SelectSeq(NewIssues, LAMBDA i : i.type = "ERROR")} :
           IF target # None
           THEN /\ errors = <<>>
                /\ EdgeAdded(internal_links, internal_links', TargetId(target), file.id)
           ELSE /\ Len(errors) = 1
                /\ errors[1].deduct = 10
                /\ errors[1].message = "Dead Internal Link: " \o h
                /\ internal_links' = internal_links]_vars

\* a dead link was just recorded on a page that had already added an edge
DeadLinkAfterEdge ==
    /\ pc = "links"
    /\ last.href = "/missing"
    /\ Len(issues) > 0
    /\ issues[Len(issues)] = [type |-> "ERROR", message |-> "Dead Internal Link: /missing",
                              file |-> files_to_scan[idx].rel_path, deduct |-> 10]
    /\ "/blog/post" \in Keys(internal_links)
    /\ "/missing" \notin Keys(internal_links)

-----------------------------------------------------------------------------
(* The resolver *)

\* The href without fragment and query
Stripped(href) == SplitFirst(SplitFirst(href, "#"), "?")

\* root/remainder for the call
BaseTarget ==
    LET h == Stripped(call.href) IN
    IF StartsWith(h, "/") THEN RootDir \o "/" \o LStrip(h, "/")
    ELSE PathDirname(call.path) \o "/" \o h

\* C6: resolve_local_path returns the first of root/remainder,
\* root/remainder.html, root/remainder/index.html that is a regular file, and
\* None when none is (or nothing is left of the href); when name.html and
\* name/index.html both exist and name is no file, name resolves to name.html.
ResolverPrecedence ==
    pc = "returned" =>
        LET cands == <<BaseTarget, BaseTarget \o ".html", BaseTarget \o "/index.html">>
            hits == {k \in 1..3 : IsFile(tree, cands[k])}
        IN /\ IF Stripped(call.href) = "" \/ hits = {}
              THEN resolved = None
              ELSE \E k \in hits : /\ \A j \in hits : k <= j
                                   /\ AbsComps(resolved) = AbsComps(cands[k])
                                   /\ StartsWith(resolved, BaseTarget)
           /\ ({"/site/a.html", "/site/a/index.html"} \subseteq tree
                   /\ call.href \in {"/a", "/a?ref=1#top"})
                => resolved = "/site/a.html"

\* a name that is both name.html and name/index.html was resolved
ResolvedBothExist ==
    /\ pc = "returned"
    /\ call.href = "/a"
    /\ {"/site/a.html", "/site/a/index.html"} \subseteq tree
    /\ "/site/a" \notin tree
    /\ resolved = "/site/a.html"

\* C7: an href starting with '/' is resolved against the project root only,
\* any other href against the directory of the referencing page only.
RootOrPageDirectory ==
    pc = "returned" =>
        /\ resolved # None => StartsWith(resolved, BaseTarget)
        /\ (call.path = "/site/deep/nested/page.html" /\ call.href = "/blog/post"
                /\ "/site/blog/post.html" \in tree)
             => resolved = "/site/blog/post.html"
        /\ (call.path = "/site/deep/nested/page.html" /\ call.href = "post")
             => resolved = (IF "/site/deep/nested/post.html" \in tree
                            THEN "/site/deep/nested/post.html" ELSE None)

\* /blog/post was resolved from a nested page that has its own blog/post
ResolvedFromNestedPage ==
    /\ pc = "returned"
    /\ call = [href |-> "/blog/post", path |-> "/site/deep/nested/page.html"]
    /\ "/site/deep/nested/blog/post.html" \in tree
    /\ resolved = "/site/blog/post.html"

-----------------------------------------------------------------------------
(* Orphans *)

OrphanMessage(id) == "Orphan page (no incoming links): " \o id

\* C8: after analyze_orphans the orphan WARN issues (deduction 5 each) are in
\* one-to-one correspondence with the page ids that are no key of
\* internal_links, the home page id '/' left out.
OrphanWarnsMatch ==
    pc \in {"report", "done"} =>
        LET expected == (PageIds \ Keys(internal_links)) \ {"/"}
            warns == {i \in 1..Len(issues) : issues[i].file = "Structure"}
        IN /\ \A id \in expected :
                 Cardinality({i \in warns : issues[i].message = OrphanMessage(id)}) = 1
           /\ \A i \in warns :
                 /\ \E id \in expected : issues[i].message = OrphanMessage(id)
                 /\ issues[i].type = "WARN"
                 /\ issues[i].deduct = 5

\* C9: the home page id is never reported as an orphan, and orphan detection
\* deducts nothing on its account: at most 5 for each other orphan.
HomeNeverOrphan ==
    /\ [](\A i \in 1..Len(issues) : issues[i].message # OrphanMessage("/"))
    /\ [][pc = "orphans" =>
            LET others == Orphans(files_to_scan, internal_links) \ {"/"} IN
            /\ Len(issues') - Len(issues) <= Cardinality(others)
            /\ score - score' <= 5 * Cardinality(others)]_vars

\* orphan detection has run on a site whose home page has no inbound edge
\* and reported another page
HomeUnlinkedAfterOrphans ==
    /\ pc = "report"
    /\ "/" \in PageIds
    /\ "/" \notin Keys(internal_links)
    /\ \E i \in 1..Len(issues) : issues[i].message = OrphanMessage("/blog/post")

-----------------------------------------------------------------------------
(* Soft routes *)

\* What a message names between its parentheses
ParenPart(m) == SubSeq(m, Find(m, "(") + 1, Find(m, ")") - 1)

\* C10: for an anchor whose href starts with /go/, one WARN (deduction 2)
\* naming exactly the tokens among nofollow, noopener, noreferrer that its
\* rel lacks is recorded if one is lacking, and no issue otherwise; the
\* anchor adds no entry to internal_links or external_links and no dead link.
SoftRoutePolicy ==
    [][(LinkStep /\ StartsWith(last'.href, "/go/")) =>
        LET tokens == {"nofollow", "noopener", "noreferrer"}
            absent == {t \in tokens : \A k \in 1..Len(last'.rel) : last'.rel[k] # t}
        IN /\ internal_links' = internal_links
           /\ external_links' = external_links
           /\ IF absent = {}
              THEN issues' = issues /\ score' = score
              ELSE /\ Len(NewIssues) = 1
                   /\ SubSeq(issues', 1, Len(issues)) = issues
                   /\ NewIssues[1].type = "WARN"
                   /\ NewIssues[1].deduct = 2
                   /\ {t \in tokens : Contains(ParenPart(NewIssues[1].message), t)} = absent
                   /\ EndsWith(NewIssues[1].message, "): " \o last'.href)]_vars

\* <a href="/go/offer" rel="nofollow"> was just analysed
SoftRouteMissingTwo ==
    /\ pc = "links"
    /\ last = [href |-> "/go/offer", rel |-> <<"nofollow">>]
    /\ Len(issues) > 0
    /\ issues[Len(issues)].type = "WARN"
    /\ issues[Len(issues)].deduct = 2
    /\ issues[Len(issues)].message =
           "Soft Route link missing rel attributes (noopener, noreferrer): /go/offer"

-----------------------------------------------------------------------------
(* Absolute hrefs *)

\* The href starts with the configured base url
MatchesBase(href, base) == base # None /\ StartsWith(href, base)

AbsoluteUrlMessage(href) == "Internal link using absolute URL: " \o href

\* C11: with a base url configured, an anchor whose http(s) href starts with
\* it records exactly one 'Internal link using absolute URL' WARN (deduction
\* 2), the path of the url ('/' if empty) goes through internal resolution
\* (a file found: one entry appended to internal_links[target id]; none
\* found: the dead-link ERROR), and external_links is left unchanged.
BaseUrlLinkIsInternal ==
    [][(LinkStep /\ IsHttp(last'.href) /\ MatchesBase(last'.href, base_url)) =>
        LET file == files_to_scan[idx]
            path == InternalHref(last')
            target == resolve_local_path(tree, path, file.path)
            absolute == SelectSeq(NewIssues,
                                  LAMBDA i : i.message = AbsoluteUrlMessage(last'.href))
            errors == SelectSeq(NewIssues, LAMBDA i : i.type = "ERROR")
        IN /\ external_links' = external_links
           /\ Len(absolute) = 1
           /\ absolute[1].type = "WARN"
           /\ absolute[1].deduct = 2
           /\ IF target # None
              THEN /\ errors = <<>>
                   /\ EdgeAdded(internal_links, internal_links', TargetId(target), file.id)
              ELSE /\ Len(errors) = 1
                   /\ errors[1].message = "Dead Internal Link: " \o path
                   /\ internal_links' = internal_links]_vars

\* C12: an anchor whose http(s) href the base url does not match appends the
\* page's relative path exactly once to external_links[href] (a new url is
\* added after the urls already there, the other lists are untouched), it
\* records exactly one WARN (deduction 2) iff its rel lacks one of nofollow,
\* noopener, noreferrer, and it leaves internal_links alone and records no
\* dead link.
ExternalLinkRecorded ==
    [][(LinkStep /\ IsHttp(last'.href) /\ ~ MatchesBase(last'.href, base_url)) =>
        LET file == files_to_scan[idx]
            href == last'.href
            tokens == {"nofollow", "noopener", "noreferrer"}
            absent == {t \in tokens : \A k \in 1..Len(last'.rel) : last'.rel[k] # t}
        IN /\ EdgeAdded(external_links, external_links', href, file.rel_path)
           /\ \A i \in 1..Len(external_links) :
                 external_links'[i].key = external_links[i].key
           /\ internal_links' = internal_links
           /\ SubSeq(issues', 1, Len(issues)) = issues
           /\ IF absent = {}
              THEN NewIssues = <<>> /\ score' = score
              ELSE /\ Len(NewIssues) = 1
                   /\ NewIssues[1].type = "WARN"
                   /\ NewIssues[1].deduct = 2
                   /\ NewIssues[1].file = file.rel_path
                   /\ StartsWith(NewIssues[1].message, "External link missing rel attributes (")
                   /\ EndsWith(NewIssues[1].message, "): " \o href)]_vars

\* one page holds the same external anchor twice, its rel lacking noopener
ExternalLinkTwiceFromOnePage ==
    /\ pc = "links"
    /\ last = [href |-> "https://ext.org/x", rel |-> <<"nofollow", "noreferrer">>]
    /\ external_links = <<[key |-> "https://ext.org/x",
                           val |-> <<files_to_scan[idx].rel_path,
                                     files_to_scan[idx].rel_path>>]>>
    /\ Len(issues) = 2
    /\ issues[2].message = "External link missing rel attributes (noopener): https://ext.org/x"

-----------------------------------------------------------------------------
(* Probes *)

\* The probe phase is over
Probed == pc \in {"orphans", "report", "done"}

\* The positions of the ledger's issues about url
ProbeIssuesOf(url) ==
    {i \in 1..Len(issues) :
        /\ issues[i].file = "External"
        /\ Contains(issues[i].message, "): " \o url \o " (found in ")}

\* The requests sent for a url, in the order they were sent, with what each did
Requests(f) ==
    (IF f.heads = 1 THEN <<f.head>> ELSE <<>>) \o (IF f.gets = 1 THEN <<f.get>> ELSE <<>>)

\* The last request made for the url failed: it raised or answered >= 400
ProbeFailed(f) ==
    /\ Requests(f) # <<>>
    /\ LET final == Requests(f)[Len(Requests(f))] IN final.exc \/ final.code >= 400

\* C13: after the probe phase every url of external_links whose last request
\* answered a status >= 400 or raised has exactly one issue, an ERROR with
\* deduction 5 that names the cause, however many pages reference it; every
\* other url has none; and every issue of the phase is about one of the urls.
OneErrorPerFailedUrl ==
    Probed =>
        /\ DOMAIN futures = Keys(external_links)
        /\ \A u \in DOMAIN futures :
              IF ProbeFailed(futures[u])
              THEN /\ Cardinality(ProbeIssuesOf(u)) = 1
                   /\ \A i \in ProbeIssuesOf(u) :
                         /\ issues[i].type = "ERROR"
                         /\ issues[i].deduct = 5
                         /\ LET final == Requests(futures[u])[Len(Requests(futures[u]))] IN
                            StartsWith(issues[i].message,
                                       "Broken External Link ("
                                           \o (IF final.exc THEN final.text
                                               ELSE IntStr(final.code)) \o "): ")
              ELSE ProbeIssuesOf(u) = {}
        /\ \A i \in 1..Len(issues) :
              issues[i].file = "External" => \E u \in DOMAIN futures : i \in ProbeIssuesOf(u)

\* the one url of the site, which two pages reference, answered 404: one issue
TwoPagesOneDeadUrl ==
    /\ pc = "orphans"
    /\ Len(external_links) = 1
    /\ external_links[1] = [key |-> "https://ext.org/x", val |-> <<"index.html", "about.html">>]
    /\ futures["https://ext.org/x"].head = Answer(404)
    /\ issues = <<[type |-> "ERROR",
                   message |-> "Broken External Link (404): https://ext.org/x (found in index.html, about.html)",
                   file |-> "External", deduct |-> 5]>>

\* C14: check_url sends requests.head first and at most once, sends
\* requests.get iff requests.head answered 403 or 405 (not when it raised
\* or answered anything else) and then exactly once, and returns the outcome
\* of the last request it sent; a url answering 403 then 200 gets no issue.
HeadThenGetOnForbidden ==
    /\ [](\A u \in DOMAIN futures :
            LET f == futures[u] IN
            /\ f.heads <= 1
            /\ f.gets <= 1
            /\ f.gets = 1 =>
                  f.heads = 1 /\ ~ f.head.exc /\ f.head.code \in {403, 405}
            /\ (f.state \in {"done", "collected"} /\ f.heads = 1) =>
                  /\ f.gets = 1 <=> (~ f.head.exc /\ f.head.code \in {403, 405})
                  /\ LET final == Requests(f)[Len(Requests(f))] IN
                     IF final.exc THEN f.status = final
                     ELSE f.status = Answer(IF final.code >= 400 THEN final.code ELSE 200))
    /\ [][\A u \in DOMAIN futures :
            /\ u \in DOMAIN futures'
            /\ futures'[u].heads >= futures[u].heads
            /\ futures'[u].gets >= futures[u].gets
            /\ futures'[u].gets > futures[u].gets =>
                  futures[u].heads = 1 /\ futures'[u].heads = 1]_vars
    /\ [](Probed =>
            \A u \in DOMAIN futures :
               (futures[u].head = Answer(403) /\ futures[u].get = Answer(200)
                    /\ futures[u].gets = 1)
                 => ProbeIssuesOf(u) = {})

\* requests.head answered 403, requests.get answered 200, and the url was
\* collected without an issue
ForbiddenThenFetched ==
    /\ pc = "orphans"
    /\ \E u \in DOMAIN futures :
          /\ futures[u].heads = 1 /\ futures[u].head = Answer(403)
          /\ futures[u].gets = 1 /\ futures[u].get = Answer(200)
          /\ futures[u].state = "collected"
    /\ issues = <<>>

\* The urls whose check_url call returned something else than 200
FailedUrls == {u \in DOMAIN futures : futures[u].status # Answer(200)}

\* C17: whatever the order in which the workers run and finish, every step
\* of a worker leaves the ledger and the score alone, every collected result
\* appends at most one issue and lowers the score by that issue's deduction
\* (floored at 0), and after the probe phase the ledger holds one issue per
\* failed url, in the order the futures completed, the score being lower by
\* exactly 5 for each (floored at 0).
ProbeResultsAllCounted ==
    /\ [][(pc \in {"external", "probing"}) =>
            /\ SubSeq(issues', 1, Len(issues)) = issues
            /\ Len(issues') <= Len(issues) + 1
            /\ score' = (IF score - SumDeduct(NewIssues) > 0
                         THEN score - SumDeduct(NewIssues) ELSE 0)
            /\ (\E u \in DOMAIN futures : futures'[u].state \in {"retry", "done"}
                                          /\ futures'[u].state # futures[u].state)
                  => issues' = issues /\ score' = score]_vars
    /\ [](Probed =>
            LET external == SelectSeq(issues, LAMBDA i : i.file = "External")
                others == SelectSeq(issues, LAMBDA i : i.file \notin {"External", "Structure"})
                left == 100 - SumDeduct(others) - 5 * Cardinality(FailedUrls)
            IN /\ Len(external) = Cardinality(FailedUrls)
               /\ \A u \in FailedUrls : Cardinality(ProbeIssuesOf(u)) = 1
               /\ pc = "orphans" => score = (IF left > 0 THEN left ELSE 0))

\* two urls failed and were collected in the order opposite to the one they
\* were submitted in
FailedUrlsCollectedInReverse ==
    /\ pc = "orphans"
    /\ Len(external_links) = 2
    /\ FailedUrls = Keys(external_links)
    /\ Len(issues) = 2
    /\ 1 \in ProbeIssuesOf(external_links[2].key)
    /\ 2 \in ProbeIssuesOf(external_links[1].key)
    /\ score = 90

-----------------------------------------------------------------------------
(* Runs without pages, and pages that fail *)

\* C15: when scan_files finds no page, run() stops there: no page is
\* analysed, no probe is submitted, no orphan is looked for, no report is
\* made, the ledger stays empty and the score stays 100.
NoPagesHaltsRun ==
    /\ []((files_to_scan = <<>> /\ pc \notin {"configure", "scan", "call", "returned"}) =>
            /\ pc = "halted"
            /\ issues = <<>>
            /\ score = 100
            /\ visited = <<>>
            /\ internal_links = <<>>
            /\ external_links = <<>>
            /\ futures = <<>>
            /\ top_pages = <<>>)
    /\ [][pc # "halted"]_vars

\* a tree whose only html files are ignored was scanned and the run is over
HaltedOnIgnoredFilesOnly ==
    /\ pc = "halted"
    /\ "/site/google1.html" \in tree
    /\ files_to_scan = <<>>
    /\ score = 100

\* The loop of run() is through
PagesDone == pc \in {"external", "probing", "orphans", "report", "done"}

\* The positions of the ledger's issues about the page
PageIssues(file_info) == {i \in 1..Len(issues) : issues[i].file = file_info.rel_path}

\* C16: a page that cannot be read or parsed records nothing and the loop
\* goes on with the next page (or with the probes after the last one): once
\* the loop is through, every page was visited, in the order of
\* files_to_scan, each other page had its semantics and its links analysed,
\* and the issues of the pages follow that order.
PageFailureSkipsPageOnly ==
    /\ [][(pc = "semantics" /\ Len(visited') > Len(visited)) =>
            /\ visited'[Len(visited')] = [id |-> files_to_scan[idx].id,
                                          outcome |-> "unreadable"]
            /\ issues' = issues /\ score' = score
            /\ internal_links' = internal_links /\ external_links' = external_links
            /\ idx' = idx + 1
            /\ pc' = (IF idx < Len(files_to_scan) THEN "semantics" ELSE "external")]_vars
    /\ [](PagesDone =>
            /\ Len(visited) = Len(files_to_scan)
            /\ \A i \in 1..Len(files_to_scan) :
                  /\ visited[i].id = files_to_scan[i].id
                  /\ IF visited[i].outcome = "unreadable"
                     THEN PageIssues(files_to_scan[i]) = {}
                     ELSE \E k \in PageIssues(files_to_scan[i]) :
                             issues[k].message = "Missing H1 tag"
            /\ \A i, j \in 1..Len(files_to_scan) :
                  i < j => \A k \in PageIssues(files_to_scan[i]),
                              l \in PageIssues(files_to_scan[j]) : k < l)

\* the first and the last page could not be read, the one between them was
\* analysed, and the run has made its report
MiddlePageAnalysed ==
    /\ pc = "done"
    /\ Len(visited) = 3
    /\ visited[1].outcome = "unreadable"
    /\ visited[2].outcome = "analyzed"
    /\ visited[3].outcome = "unreadable"
    /\ Len(issues) > 1
    /\ issues[1] = [type |-> "ERROR", message |-> "Missing H1 tag",
                    file |-> files_to_scan[2].rel_path, deduct |-> 5]
    /\ \E i \in 1..Len(issues) : issues[i].file = "Structure"

\* C20: when an iteration of analyze_links raises, what the page recorded
\* before is kept (its issues and their deductions, its entries of
\* internal_links and external_links), the rest of its anchors is not
\* processed (the loop of run() moves to the next page), and the failure
\* adds no issue and no deduction of its own; the kept urls are probed and
\* the kept edges count when orphans are looked for.
PartialPageKept ==
    /\ [][(LinkStep /\ Len(visited') > Len(visited)) =>
            /\ visited'[Len(visited')] = [id |-> files_to_scan[idx].id, outcome |-> "partial"]
            /\ SubSeq(issues', 1, Len(issues)) = issues
            /\ \A i \in (Len(issues) + 1)..Len(issues') :
                  issues'[i].message = AbsoluteUrlMessage(last'.href)
            /\ score' = (IF score - SumDeduct(NewIssues) > 0
                         THEN score - SumDeduct(NewIssues) ELSE 0)
            /\ internal_links' = internal_links
            /\ external_links' = external_links
            /\ idx' = idx + 1
            /\ pc' \in {"semantics", "external"}]_vars
    /\ [][/\ SubSeq(issues', 1, Len(issues)) = issues
          /\ \A k \in Keys(internal_links) :
                /\ k \in Keys(internal_links')
                /\ SubSeq(Get(internal_links', k), 1, Len(Get(internal_links, k)))
                       = Get(internal_links, k)
          /\ \A u \in Keys(external_links) :
                /\ u \in Keys(external_links')
                /\ SubSeq(Get(external_links', u), 1, Len(Get(external_links, u)))
                       = Get(external_links, u)]_vars
    /\ [](Probed =>
            /\ DOMAIN futures = Keys(external_links)
            /\ \A u \in DOMAIN futures : futures[u].state = "collected")
    /\ [](pc \in {"report", "done"} =>
            \A k \in Keys(internal_links) :
               \A i \in 1..Len(issues) : issues[i].message # OrphanMessage(k))

\* a page recorded a missing h1, an edge and an external url, then one of
\* its anchors raised; the run is over, the url was probed and found dead,
\* and the page the edge leads to is no orphan
PartialPageCounted ==
    /\ pc = "done"
    /\ Len(visited) = 3
    /\ visited[1] = [id |-> "/", outcome |-> "partial"]
    /\ visited[2].outcome = "unreadable"
    /\ visited[3].outcome = "unreadable"
    /\ internal_links = <<[key |-> "/docs/b", val |-> <<"/">>]>>
    /\ external_links = <<[key |-> "https://ext.org/x", val |-> <<"index.html">>]>>
    /\ SubSeq(issues, 1, 2) =
          <<[type |-> "ERROR", message |-> "Missing H1 tag", file |-> "index.html",
             deduct |-> 5],
            [type |-> "WARN",
             message |-> "Internal link using absolute URL: https://example.com]/a",
             file |-> "index.html", deduct |-> 2]>>
    /\ \E i \in 1..Len(issues) : StartsWith(issues[i].message, "Broken External Link (404)")
    /\ \A i \in 1..Len(issues) : issues[i].message # OrphanMessage("/docs/b")
    /\ score = 100 - SumDeduct(issues)

-----------------------------------------------------------------------------
(* The top pages of the report *)

\* Where scan_files found the page of that id (after every page, if none has it)
DiscoveryPosition(id) ==
    IF id \in PageIds
    THEN CHOOSE i \in 1..Len(files_to_scan) :
            /\ files_to_scan[i].id = id
            /\ \A j \in 1..(i - 1) : files_to_scan[j].id # id
    ELSE Len(files_to_scan) + 1

\* top_pages is the first ten items of internal_links when they are ordered
\* by falling length of their lists and, among equal lengths, by Position
TopPagesOrderedBy(Position(_)) ==
    /\ Len(top_pages) = (IF Len(internal_links) < 10 THEN Len(internal_links) ELSE 10)
    /\ \A i \in 1..Len(top_pages) :
          /\ top_pages[i].key \in Keys(internal_links)
          /\ top_pages[i].val = Get(internal_links, top_pages[i].key)
          /\ \A j \in 1..Len(top_pages) : top_pages[j].key = top_pages[i].key => i = j
          /\ \A q \in 1..Len(internal_links) :
                LET y == internal_links[q]
                    listed == {j \in 1..Len(top_pages) : top_pages[j].key = y.key}
                IN (listed = {} \/ \E j \in listed : j > i) =>
                      \/ Len(y.val) < Len(top_pages[i].val)
                      \/ /\ Len(y.val) = Len(top_pages[i].val)
                         /\ Position(top_pages[i].key) < Position(y.key)

\* C18: the top pages are at most ten keys of internal_links, those
\* with the most entries, by falling number of entries, and of two keys with
\* as many entries the page scan_files found first comes first (and gets the
\* tenth place).
TopPagesTiesByDiscovery ==
    pc = "done" => TopPagesOrderedBy(DiscoveryPosition)

-----------------------------------------------------------------------------
(* The phases of a run *)

\* C19: when scan_files found a page, the probes are submitted only once
\* the loop of run() is through every page, for exactly the urls recorded
\* by then, and once; orphans are looked for and the report is made only
\* after every submitted probe has returned and been collected; no phase is
\* entered again; and the run ends with its report.
PhasesInOrderAndReportMade ==
    /\ [](PagesDone => /\ idx = Len(files_to_scan) + 1
                       /\ Len(visited) = Len(files_to_scan))
    /\ [][pc = "external" =>
            /\ DOMAIN futures \subseteq DOMAIN futures'
            /\ DOMAIN futures' \subseteq Keys(external_links)
            /\ Cardinality(DOMAIN futures') <= Cardinality(DOMAIN futures) + 1
            /\ \A u \in DOMAIN futures' \ DOMAIN futures : futures'[u].state = "pending"
            /\ pc' # "external" => DOMAIN futures' = Keys(external_links)]_vars
    /\ [][PagesDone => /\ external_links' = external_links
                       /\ internal_links' = internal_links
                       /\ pc' \notin {"scan", "semantics", "links"}
                       /\ pc # "external" => pc' # "external" /\ DOMAIN futures' = DOMAIN futures]_vars
    /\ [](Probed => /\ DOMAIN futures = Keys(external_links)
                    /\ \A u \in DOMAIN futures : futures[u].state = "collected")
    /\ [][(pc \in {"report", "done"}) => (pc' = "done")]_vars
    /\ [](pc = "done" => Len(top_pages) = Len(internal_links))
    /\ (pc = "semantics") ~> (pc = "done")

\* the run is over; of its two urls one was fetched again after a 403 and
\* the other one timed out
ReportAfterBothProbes ==
    /\ pc = "done"
    /\ Len(external_links) = 2
    /\ \E u, v \in DOMAIN futures :
          /\ futures[u].state = "collected" /\ futures[u].gets = 1
          /\ futures[v].state = "collected" /\ futures[v].head = Raises("timed out")
    /\ Len(issues) > 0

=============================================================================
